---- MODULE Spec2Model ----
(***************************************************************************)
(* Test session orchestration and evidence pipeline of Playwright_MCP:     *)
(* the behave hooks (features/support/hooks.py), the CustomWorld session   *)
(* (features/support/world.py), the MCPClient (features/support/           *)
(* mcp_client.py) and the step definitions (features/steps/                *)
(* google_search_steps.py).                                                *)
(*                                                                         *)
(* Every Python function is an operator that returns a record              *)
(*   [self |-> the object after the call, ret |-> the value returned,      *)
(*    raised |-> whether the call raised to its caller].                   *)
(* Awaited driver and server calls that can fail take their outcome as an  *)
(* input that the actions draw with \E.  Timestamps (datetime.now()) are   *)
(* left out of the records: no claim reads them.                           *)
(***************************************************************************)
EXTENDS Integers, Sequences, FiniteSets, TLC

VARIABLES
    phase,        \* position of the behave runner in the hook lifecycle
    context,      \* attributes the hooks and steps set on the behave context
    world,        \* the CustomWorld held in context.world (None before the first scenario)
    client,       \* the MCPClient held in world.mcp_client (meaningful when world.mcp_client)
    open,         \* driver, browser, context and page handles currently open
    scenario,     \* the scenario being run: name, steps, position, status, exception
    reported,     \* history: every record passed to report_test_result in this run, in order
    trace,        \* history: what the last hook did (cleanup calls, teardown steps, raise)
    lastCall,     \* history: the last direct MCPClient call, its arguments and its outcome
    faults,       \* number of failures the environment has injected so far
    captured,     \* history: every record a step-end capture stored, in capture order
    loop          \* the thread's asyncio event loop and the calls bridged onto it

vars == <<phase, context, world, client, open, scenario, reported, trace, lastCall, faults,
          captured, loop>>

None == "None"

\* what a call that returns nothing returns; like None it is falsy
NoValue == [none |-> TRUE]

(***************************************************************************)
(* Bounds of the model.                                                    *)
(***************************************************************************)
MaxScenarios == 2
MaxResults == 2
MaxFaults == 2
MaxSummaryLen == 4

(***************************************************************************)
(* Python mappings are functions from strings; {} is the empty function.   *)
(***************************************************************************)
EmptyDict == <<>>

\* m.get(k) is truthy, for a text value
Truthy(m, k) == k \in DOMAIN m /\ m[k] # <<>>

Put(m, k, v) == [x \in DOMAIN m \cup {k} |-> IF x = k THEN v ELSE m[x]]

Result(s, r, e) == [self |-> s, ret |-> r, raised |-> e]

(***************************************************************************)
(* MCPClient (features/support/mcp_client.py)                              *)
(***************************************************************************)
NewMCPClient ==
    [client |-> None, transport |-> None, connected |-> FALSE, test_results |-> <<>>]

\* connect(): the try body sets connected; the except branch clears it and
\* swallows the error.  ok = the try body ran to its end.  Returns nothing.
Connect(c, ok) ==
    Result([c EXCEPT !.connected = ok], NoValue, FALSE)

\* disconnect(): acts only when self.client is set.
Disconnect(c) ==
    IF c.client # None
    THEN Result([c EXCEPT !.client = None, !.transport = None, !.connected = FALSE],
                NoValue, FALSE)
    ELSE Result(c, NoValue, FALSE)

IsConnected(c) == c.connected

StartTestOrchestration(c, test_name, ok) ==
    IF ~c.connected
    THEN Result(c, [status |-> "skipped", reason |-> "MCP not connected"], FALSE)
    ELSE IF ok
         THEN Result(c, [status |-> "started", test_name |-> test_name], FALSE)
         ELSE Result(c, [status |-> "error", error |-> "orchestration error"], FALSE)

\* Variant: the failure of the remote call propagates to the caller.
StopTestOrchestrationPropagates(c, test_name, ok) ==
    IF ~c.connected
    THEN Result(c, [status |-> "skipped"], FALSE)
    ELSE IF ok
         THEN Result(c, [status |-> "stopped", test_name |-> test_name], FALSE)
         ELSE Result(c, NoValue, TRUE)

StopTestOrchestration(c, test_name, ok) ==
    IF ~c.connected
    THEN Result(c, [status |-> "skipped"], FALSE)
    ELSE IF ok
         THEN Result(c, [status |-> "stopped", test_name |-> test_name], FALSE)
         ELSE Result(c, [status |-> "error", error |-> "orchestration error"], FALSE)

\* Texts the program transforms or matches (names, keywords, titles) are
\* tuples of characters; tags such as a status are plain strings.
KwAI == <<"A", "I">>

DefaultKeyword == KwAI

\* the empty text; like None it is falsy
NoText == <<>>

\* details=None of report_test_result
NoDetails == NoValue

\* Variant: no local default in degraded mode.
FetchDynamicDataNoDefault(c, data_type, ok) ==
    IF ~c.connected \/ ~ok
    THEN Result(c, EmptyDict, FALSE)
    ELSE IF data_type = "search_keyword"
         THEN Result(c, [keyword |-> KwAI, source |-> "mcp"], FALSE)
         ELSE IF data_type = "validation_criteria"
              THEN Result(c, [min_results |-> 5, title_contains |-> KwAI,
                              source |-> "mcp"], FALSE)
              ELSE Result(c, EmptyDict, FALSE)

FetchDynamicData(c, data_type, ok) ==
    IF ~c.connected
    THEN IF data_type = "search_keyword"
         THEN Result(c, [keyword |-> DefaultKeyword, source |-> "default"], FALSE)
         ELSE Result(c, EmptyDict, FALSE)
    ELSE IF ~ok
         THEN Result(c, EmptyDict, FALSE)
         ELSE IF data_type = "search_keyword"
              THEN Result(c, [keyword |-> KwAI, source |-> "mcp"], FALSE)
              ELSE IF data_type = "validation_criteria"
                   THEN Result(c, [min_results |-> 5, title_contains |-> KwAI,
                                   source |-> "mcp"], FALSE)
                   ELSE Result(c, EmptyDict, FALSE)

\* The record report_test_result builds: details or {}, and the screenshot
\* key only when a path was given.
TestResult(test_name, status, details, screenshot_path) ==
    LET base == [test_name |-> test_name, status |-> status,
                 details |-> IF details = NoDetails THEN EmptyDict ELSE details]
    IN  IF screenshot_path # NoText THEN Put(base, "screenshot", screenshot_path) ELSE base

\* Variant: the record is appended after the remote delivery, inside the try
\* block, so a failed delivery skips it.
ReportTestResultAppendsAfterDelivery(c, test_name, status, details, screenshot_path, ok) ==
    LET result == TestResult(test_name, status, details, screenshot_path)
        c2 == [c EXCEPT !.test_results = Append(c.test_results, result)]
    IN  IF ~c.connected
        THEN Result(c2, [status |-> "logged_locally"], FALSE)
        ELSE IF ok
             THEN Result(c2, [status |-> "reported", result |-> result], FALSE)
             ELSE Result(c, [status |-> "error", error |-> "report error"], FALSE)

\* Variant: results kept by name, a later report replacing the earlier one.
ReportTestResultKeyedByName(c, test_name, status, details, screenshot_path, ok) ==
    LET result == TestResult(test_name, status, details, screenshot_path)
        old == c.test_results
        c2 == [c EXCEPT !.test_results =
                  IF \E i \in DOMAIN old : old[i].test_name = test_name
                  THEN [i \in DOMAIN old |->
                           IF old[i].test_name = test_name THEN result ELSE old[i]]
                  ELSE Append(old, result)]
    IN  IF ~c.connected
        THEN Result(c2, [status |-> "logged_locally"], FALSE)
        ELSE IF ok
             THEN Result(c2, [status |-> "reported", result |-> result], FALSE)
             ELSE Result(c2, [status |-> "error", error |-> "report error"], FALSE)

ReportTestResult(c, test_name, status, details, screenshot_path, ok) ==
    LET result == TestResult(test_name, status, details, screenshot_path)
        c2 == [c EXCEPT !.test_results = Append(c.test_results, result)]
    IN  IF ~c.connected
        THEN Result(c2, [status |-> "logged_locally"], FALSE)
        ELSE IF ok
             THEN Result(c2, [status |-> "reported", result |-> result], FALSE)
             ELSE Result(c2, [status |-> "error", error |-> "report error"], FALSE)

GetTestResults(c) == c.test_results

(***************************************************************************)
(* CustomWorld (features/support/world.py).  A session is the world, the   *)
(* client it holds and the handles open in the driver:                     *)
(*   [world |-> ..., client |-> ..., open |-> ...].                        *)
(* A handle is <<kind, n>>, n the ordinal of the scenario that opened it.  *)
(***************************************************************************)
NoHandle == <<>>

NewWorld ==
    [playwright |-> NoHandle, browser |-> NoHandle, browser_context |-> NoHandle,
     page |-> NoHandle, mcp_client |-> FALSE]

\* The start-up steps of init_browser, in order, with the field each one sets.
StartupSteps == <<"playwright", "browser", "browser_context", "page">>

\* init_browser(): failAt = 0 when every step succeeds, else the step that
\* raises; the except branch logs and re-raises.
RECURSIVE StartFrom(_, _, _, _)
StartFrom(i, h, n, failAt) ==
    IF i > Len(StartupSteps)
    THEN Result(h, NoValue, FALSE)
    ELSE IF i = failAt
         THEN Result(h, NoValue, TRUE)
         ELSE LET f == StartupSteps[i]
                  hd == <<f, n>>
              IN  StartFrom(i + 1,
                            [h EXCEPT !.world = [h.world EXCEPT ![f] = hd],
                                      !.open = h.open \cup {hd}],
                            n, failAt)

\* Variant: the except branch logs and returns.
InitBrowserSwallows(h, n, failAt) ==
    [StartFrom(1, h, n, failAt) EXCEPT !.raised = FALSE]

InitBrowser(h, n, failAt) == StartFrom(1, h, n, failAt)

\* Variant: the except branch re-raises, as the one of init_browser does.
InitMcpReraises(h, ctorOk, connOk) ==
    IF ~ctorOk
    THEN Result([h EXCEPT !.world = [h.world EXCEPT !.mcp_client = FALSE],
                          !.client = NewMCPClient], NoValue, TRUE)
    ELSE Result([h EXCEPT !.world = [h.world EXCEPT !.mcp_client = TRUE],
                          !.client = Connect(NewMCPClient, connOk).self], NoValue, FALSE)

\* init_mcp(): a failure of MCPClient() lands in the except branch, which
\* clears mcp_client; connect() swallows its own failure.
InitMcp(h, ctorOk, connOk) ==
    IF ~ctorOk
    THEN Result([h EXCEPT !.world = [h.world EXCEPT !.mcp_client = FALSE],
                          !.client = NewMCPClient], NoValue, FALSE)
    ELSE LET r == Connect(NewMCPClient, connOk)
         IN  IF r.raised
             THEN Result([h EXCEPT !.world = [h.world EXCEPT !.mcp_client = FALSE],
                                   !.client = NewMCPClient], NoValue, FALSE)
             ELSE Result([h EXCEPT !.world = [h.world EXCEPT !.mcp_client = TRUE],
                                   !.client = r.self], NoValue, FALSE)

\* The teardown steps of cleanup, in order, with the field each one reads.
TeardownSteps == <<"page", "browser_context", "browser", "playwright">>

CloseOutcomes == {"ok", "raise"}

\* What the closes of one cleanup() do.  The first close that raises ends the
\* block, so the outcomes that matter name at most one raising close.
CloseChoices ==
    {out \in [{"page", "browser_context", "browser", "playwright"} -> CloseOutcomes] :
        Cardinality({f \in DOMAIN out : out[f] # "ok"}) <= 1}

\* The first try block of cleanup(): the closes run one after the other and
\* the first one that raises ends the block.  out[f] is what closing f does:
\* "ok" closes it; "raise" raises, which the driver does when the target of
\* the close has already gone, so the handle is not open afterwards either.
\* att = the steps attempted so far.
RECURSIVE TeardownFrom(_, _, _, _)
TeardownFrom(i, h, out, att) ==
    IF i > Len(TeardownSteps)
    THEN [self |-> h, attempted |-> att]
    ELSE LET f == TeardownSteps[i]
             hd == h.world[f]
         IN  IF hd = NoHandle
             THEN TeardownFrom(i + 1, h, out, att)
             ELSE IF out[f] = "ok"
                  THEN TeardownFrom(i + 1, [h EXCEPT !.open = h.open \ {hd}], out,
                                    att \cup {f})
                  ELSE [self |-> [h EXCEPT !.open = h.open \ {hd}],
                        attempted |-> att \cup {f}]

\* Variant: the browser block lets the failure of a close through.
CleanupPropagates(h, out) ==
    LET t == TeardownFrom(1, h, out, {})
    IN  IF \E f \in t.attempted : out[f] # "ok"
        THEN [self |-> t.self, attempted |-> t.attempted, raised |-> TRUE]
        ELSE [self |-> [t.self EXCEPT !.client =
                           IF t.self.world.mcp_client THEN Disconnect(t.self.client).self
                           ELSE t.self.client],
              attempted |-> t.attempted
                  \cup (IF t.self.world.mcp_client THEN {"mcp_client"} ELSE {}),
              raised |-> FALSE]

\* cleanup(): the browser block, then the client block; both swallow.
Cleanup(h, out) ==
    LET t == TeardownFrom(1, h, out, {})
        h1 == t.self
        d == IF h1.world.mcp_client THEN Disconnect(h1.client) ELSE Result(h1.client, NoValue, FALSE)
    IN  [self |-> [h1 EXCEPT !.client = d.self],
         attempted |-> t.attempted \cup (IF h1.world.mcp_client THEN {"mcp_client"} ELSE {}),
         raised |-> FALSE]

\* The steps cleanup() has a handle for when it is entered.
Present(h) ==
    {f \in {"page", "browser_context", "browser", "playwright"} : h.world[f] # NoHandle}
        \cup (IF h.world.mcp_client THEN {"mcp_client"} ELSE {})

(***************************************************************************)
(* Texts                                                                   *)
(***************************************************************************)
\* str.replace(a, b) for single characters
Replace(s, a, b) == [i \in DOMAIN s |-> IF s[i] = a THEN b ELSE s[i]]

\* str.replace(a, '') for a single character
RECURSIVE Remove(_, _)
Remove(s, a) ==
    IF s = <<>> THEN <<>>
    ELSE IF Head(s) = a THEN Remove(Tail(s), a) ELSE <<Head(s)>> \o Remove(Tail(s), a)

\* s[:n]
Take(s, n) == SubSeq(s, 1, IF Len(s) < n THEN Len(s) ELSE n)

UpperCase == <<"A", "B", "C", "D", "E", "F", "G", "H", "I", "J", "K", "L", "M",
               "N", "O", "P", "Q", "R", "S", "T", "U", "V", "W", "X", "Y", "Z">>

LowerCase == <<"a", "b", "c", "d", "e", "f", "g", "h", "i", "j", "k", "l", "m",
               "n", "o", "p", "q", "r", "s", "t", "u", "v", "w", "x", "y", "z">>

LowerChar(ch) ==
    IF \E i \in DOMAIN UpperCase : UpperCase[i] = ch
    THEN LowerCase[CHOOSE i \in DOMAIN UpperCase : UpperCase[i] = ch]
    ELSE ch

\* str.lower()
Lower(s) == [i \in DOMAIN s |-> LowerChar(s[i])]

\* a in b, for texts
Contains(b, a) ==
    \E i \in 0..(Len(b) - Len(a)) : SubSeq(b, i + 1, i + Len(a)) = a

(***************************************************************************)
(* The scenarios of the run.  A step has the kind of its step definition,  *)
(* its Gherkin keyword, its name and the parameter its pattern captures.   *)
(***************************************************************************)
KwML == <<"M", "L">>

TxtGoogle == <<"G", "o", "o", "g", "l", "e">>

StepNavigate ==
    [kind |-> "navigate", keyword |-> "Given", arg |-> NoText,
     name |-> <<"I", " ", "n", "a", "v", "i", "g", "a", "t", "e", " ", "t", "o", " ", "G", "o", "o", "g", "l", "e">>]

StepSearch ==
    [kind |-> "search", keyword |-> "When", arg |-> KwML,
     name |-> <<"I", " ", "s", "e", "a", "r", "c", "h", " ", "f", "o", "r", " ", "\"", "M", "L", "\"">>]

StepVerifyResults ==
    [kind |-> "verify_results", keyword |-> "Then", arg |-> NoText,
     name |-> <<"I", " ", "s", "h", "o", "u", "l", "d", " ", "s", "e", "e", " ", "s", "e", "a", "r", "c", "h", " ", "r", "e", "s", "u", "l", "t", "s", " ", "d", "i", "s", "p", "l", "a", "y", "e", "d">>]

StepVerifyTitle ==
    [kind |-> "verify_title", keyword |-> "And", arg |-> TxtGoogle,
     name |-> <<"t", "h", "e", " ", "p", "a", "g", "e", " ", "t", "i", "t", "l", "e", " ", "s", "h", "o", "u", "l", "d", " ", "c", "o", "n", "t", "a", "i", "n", " ", "\"", "G", "o", "o", "g", "l", "e", "\"">>]

BasicSearch == <<"b", "a", "s", "i", "c", " ", "s", "e", "a", "r", "c", "h">>

TitleCheck == <<"t", "i", "t", "l", "e", " ", "c", "h", "e", "c", "k">>

\* The feature the runner executes: its scenarios run in this order, and a
\* longer run goes through them again.
Feature ==
    << [name |-> BasicSearch, steps |-> <<StepNavigate, StepSearch, StepVerifyResults>>],
       [name |-> TitleCheck, steps |-> <<StepNavigate, StepVerifyTitle>>] >>

ScenarioAt(n) == Feature[((n - 1) % Len(Feature)) + 1]

\* Page titles the browser may show.
Titles == { TxtGoogle, <<"m", "l", " ", "-", " ", "S", "e", "a", "r", "c", "h">> }

VerifySearchResults == <<"v", "e", "r", "i", "f", "y", "_", "s", "e", "a", "r", "c", "h", "_", "r", "e", "s", "u", "l", "t", "s">>

VerifyPageTitle == <<"v", "e", "r", "i", "f", "y", "_", "p", "a", "g", "e", "_", "t", "i", "t", "l", "e">>

ErrNavigate == <<"n", "a", "v">>

ErrSearch == <<"s", "e", "a", "r", "c", "h">>

ErrNoResults == <<"n", "o", " ", "r", "e", "s", "u", "l", "t", "s">>

ErrTitle == <<"t", "i", "t", "l", "e">>

ErrBrowser == <<"b", "r", "o", "w", "s", "e", "r">>

UnknownError == <<"U", "n", "k", "n", "o", "w", "n", " ", "e", "r", "r", "o", "r">>

Unknown == <<"u", "n", "k", "n", "o", "w", "n">>

(***************************************************************************)
(* The runner and the hooks (features/support/hooks.py)                    *)
(***************************************************************************)
NoScenario ==
    [name |-> NoText, steps |-> <<>>, idx |-> 0, n |-> 0, status |-> "untested",
     step_status |-> "untested", exception |-> NoText]

NoTrace ==
    [hook |-> "none", raised |-> FALSE, cleanup_calls |-> 0, cleanup_raised |-> FALSE,
     present |-> {},
     attempted |-> {}, shot_attempted |-> FALSE, shot_raised |-> FALSE,
     mcp_fault |-> "none", before |-> 0, read |-> <<>>, written |-> {},
     browser_fault |-> 0, mcp_called |-> FALSE, used |-> NoText]

NoCall == [op |-> "none", args |-> <<>>, ok |-> TRUE, ret |-> NoValue, raised |-> FALSE]

Heap == [world |-> world, client |-> client, open |-> open]

(***************************************************************************)
(* The bridge from the synchronous hooks and steps to the awaited calls:   *)
(* run_async and the same lines at the head of the hooks.  current is the  *)
(* thread's current loop (0 = none), created the number of loops that have *)
(* come to exist, new_event_loop_calls the calls of asyncio.new_event_loop, *)
(* in_flight the awaited operations running on the loop.                   *)
(* The calls one hook or step bridges run one after the other, each to its *)
(* end, and leave the loop as the first of them left it.                   *)
(***************************************************************************)
NoLoop ==
    [current |-> 0, created |-> 0, new_event_loop_calls |-> 0, in_flight |-> 0,
     max_in_flight |-> 0]

\* asyncio.get_event_loop() with the except branch after it: the current loop
\* when there is one; else found = the call made one itself, ~found = it
\* raised RuntimeError and new_event_loop / set_event_loop follow.
GetEventLoop(l, found) ==
    IF l.current # 0 THEN l
    ELSE [l EXCEPT !.current = l.created + 1, !.created = l.created + 1,
                   !.new_event_loop_calls = IF found THEN @ ELSE @ + 1]

\* loop.run_until_complete(coro): returns when the operation has ended.
RunUntilComplete(l) ==
    LET during == l.in_flight + 1
    IN  [l EXCEPT !.max_in_flight = IF during > @ THEN during ELSE @]

\* Variant: a new loop is made for every bridged call.
RunAsyncNewLoopEachCall(l, found) ==
    RunUntilComplete([l EXCEPT !.current = l.created + 1, !.created = l.created + 1,
                               !.new_event_loop_calls = @ + 1])

\* run_async
RunAsync(l, found) == RunUntilComplete(GetEventLoop(l, found))

Init ==
    /\ phase = "Idle"
    /\ context = EmptyDict
    /\ world = NewWorld
    /\ client = NewMCPClient
    /\ open = {}
    /\ scenario = NoScenario
    /\ reported = <<>>
    /\ trace = NoTrace
    /\ lastCall = NoCall
    /\ faults = 0
    /\ captured = <<>>
    /\ loop = NoLoop

\* The environment injects at most MaxFaults failures in a run: a failure is
\* an awaited call that raises or a check of the page that comes out false.
Cost(ok) == IF ok THEN 0 ELSE 1

Inject(cost) ==
    /\ faults + cost <= MaxFaults
    /\ faults' = faults + cost

\* The outcomes of a call that is made only when cond holds.
Outcome(cond) == IF cond THEN BOOLEAN ELSE {TRUE}

\* before_all_hook: load the configuration, reset the run's screenshot list;
\* the browser installation check opens and closes its own browser inside a
\* try block and leaves nothing behind.
BeforeAll(ctx, env) ==
    Put(Put(ctx, "config_manager", env), "screenshots", <<>>)

before_all_hook ==
    /\ phase = "Idle"
    /\ \E env \in {"dev"} :
         context' = BeforeAll(context, env)
    /\ phase' = "SuiteActive"
    /\ trace' = [NoTrace EXCEPT !.hook = "before_all", !.before = Len(reported)]
    /\ UNCHANGED <<world, client, open, scenario, reported, lastCall, faults, captured, loop>>

\* before_scenario_hook, and the runner's reaction to it: a hook that raises
\* fails the scenario, whose steps are skipped.
before_scenario_hook ==
    /\ phase = "SuiteActive"
    /\ scenario.n < MaxScenarios
    /\ \E sd \in {ScenarioAt(scenario.n + 1)}, failAt \in 0..Len(StartupSteps),
          ctorOk \in BOOLEAN, connOk \in BOOLEAN, startOk \in BOOLEAN :
         /\ failAt # 0 => ctorOk /\ connOk /\ startOk
         /\ ~ctorOk => connOk
         /\ ~(ctorOk /\ connOk) => startOk
         /\ Inject(Cost(failAt = 0) + Cost(ctorOk) + Cost(connOk) + Cost(startOk))
         /\ LET ctx1 == IF "screenshots" \in DOMAIN context THEN context
                        ELSE Put(context, "screenshots", <<>>)
                ctx2 == Put(ctx1, "scenario_screenshots", <<>>)
                ctx3 == Put(ctx2, "world", TRUE)
                w0 == IF "world" \in DOMAIN context THEN world ELSE NewWorld
                n == scenario.n + 1
                b == InitBrowser([world |-> w0, client |-> client, open |-> open], n, failAt)
                m == InitMcp(b.self, ctorOk, connOk)
                s == IF m.self.world.mcp_client
                     THEN StartTestOrchestration(m.self.client, sd.name, startOk)
                     ELSE Result(m.self.client, NoValue, FALSE)
                raised == b.raised \/ m.raised \/ s.raised
                h == IF b.raised THEN b.self
                     ELSE IF m.raised THEN m.self
                     ELSE [m.self EXCEPT !.client = s.self]
            IN  /\ context' = ctx3
                /\ world' = h.world
                /\ client' = h.client
                /\ open' = h.open
                /\ scenario' = [name |-> sd.name, steps |-> sd.steps, n |-> n,
                                idx |-> IF raised THEN 0 ELSE 1,
                                status |-> IF raised THEN "failed" ELSE "untested",
                                step_status |-> "untested",
                                exception |-> IF raised THEN ErrBrowser ELSE NoText]
                /\ phase' = IF raised THEN "ScenarioEnd" ELSE "Step"
                /\ trace' = [NoTrace EXCEPT !.hook = "before_scenario", !.raised = raised,
                                            !.mcp_fault = IF ~ctorOk THEN "init"
                                                          ELSE IF ~connOk THEN "connect"
                                                          ELSE IF ~startOk THEN "start"
                                                          ELSE "none",
                                            !.browser_fault = failAt,
                                            !.mcp_called = ~b.raised,
                                            !.before = Len(reported)]
    /\ \E loopOk \in Outcome(loop.current = 0) : loop' = RunAsync(loop, loopOk)
    /\ UNCHANGED <<reported, lastCall, captured>>

(***************************************************************************)
(* The step definitions (features/steps/google_search_steps.py).  The      *)
(* page-object calls are the driver's: a call that can raise takes its     *)
(* outcome as an input, and it raises when the page handle is missing.     *)
(***************************************************************************)
CurrentStep == scenario.steps[scenario.idx]

\* Variant: after a step that passed the runner starts the next step at once
\* and leaves the step-end hook for later.
StepEndsCaptureDeferred(raised, err, used) ==
    /\ scenario' = [scenario EXCEPT !.step_status = IF raised THEN "failed" ELSE "passed",
                                    !.exception = IF raised THEN err ELSE @,
                                    !.idx = IF ~raised /\ @ < Len(scenario.steps)
                                            THEN @ + 1 ELSE @]
    /\ phase' = IF ~raised /\ scenario.idx < Len(scenario.steps) THEN "Step" ELSE "AfterStep"
    /\ trace' = [NoTrace EXCEPT !.hook = "step", !.raised = raised,
                                !.before = Len(reported), !.used = used]

\* The runner records how the step ended and runs the step-end hook next;
\* used is the value the step handed to the page (its keyword or the text it
\* looked for), empty for a step that takes none.
StepEnds(raised, err, used) ==
    /\ scenario' = [scenario EXCEPT !.step_status = IF raised THEN "failed" ELSE "passed",
                                    !.exception = IF raised THEN err ELSE @]
    /\ phase' = "AfterStep"
    /\ trace' = [NoTrace EXCEPT !.hook = "step", !.raised = raised,
                                !.before = Len(reported), !.used = used]

\* context.google_page, created over world.page when the context has none
GooglePage(ctx, w) ==
    IF "google_page" \in DOMAIN ctx THEN ctx ELSE Put(ctx, "google_page", w.page)

step_navigate_to_google ==
    /\ phase = "Step"
    /\ CurrentStep.kind = "navigate"
    /\ \E navOk \in BOOLEAN,
          failAt \in (IF "world" \in DOMAIN context THEN {0} ELSE 0..Len(StartupSteps)),
          ctorOk \in (IF "world" \in DOMAIN context THEN {TRUE} ELSE BOOLEAN) :
         /\ Inject(Cost(navOk) + Cost(failAt = 0) + Cost(ctorOk))
         /\ LET fresh == "world" \notin DOMAIN context
                b == IF fresh
                     THEN InitBrowser([world |-> NewWorld, client |-> client, open |-> open],
                                      scenario.n, failAt)
                     ELSE Result(Heap, NoValue, FALSE)
                m == IF fresh /\ ~b.raised THEN InitMcp(b.self, ctorOk, TRUE) ELSE b
                h == m.self
                ok == ~m.raised /\ navOk /\ h.world.page # NoHandle
            IN  /\ context' = IF ok THEN Put(Put(context, "world", TRUE), "google_page", h.world.page)
                              ELSE IF fresh THEN Put(context, "world", TRUE) ELSE context
                /\ world' = h.world
                /\ client' = h.client
                /\ open' = h.open
                /\ StepEnds(~ok, ErrNavigate, NoText)
    /\ \E loopOk \in Outcome(loop.current = 0) : loop' = RunAsync(loop, loopOk)
    /\ UNCHANGED <<reported, lastCall, captured>>

\* Variant: the search step fetches the keyword whatever the client's state.
SearchKeywordAlwaysFetched(w, c, keyword, fetchOk) ==
    LET mcp_data == FetchDynamicData(c, "search_keyword", fetchOk).ret
    IN  IF Truthy(mcp_data, "keyword") THEN mcp_data["keyword"] ELSE keyword

\* The keyword the search step uses: the scenario's own, replaced by the
\* fetched one when the client is connected and supplies a non-empty value.
SearchKeyword(w, c, keyword, fetchOk) ==
    IF w.mcp_client /\ IsConnected(c)
    THEN LET mcp_data == FetchDynamicData(c, "search_keyword", fetchOk).ret
         IN  IF Truthy(mcp_data, "keyword") THEN mcp_data["keyword"] ELSE keyword
    ELSE keyword

step_search_for_keyword ==
    /\ phase = "Step"
    /\ CurrentStep.kind = "search"
    /\ \E fetchOk \in Outcome(world.mcp_client /\ IsConnected(client)),
          searchOk \in BOOLEAN :
         /\ Inject(Cost(fetchOk) + Cost(searchOk))
         /\ LET keyword == SearchKeyword(world, client, CurrentStep.arg, fetchOk)
                ctx1 == GooglePage(context, world)
                ok == searchOk /\ ctx1["google_page"] # NoHandle
            IN  /\ context' = IF ok THEN Put(ctx1, "search_keyword", keyword) ELSE ctx1
                /\ StepEnds(~ok, ErrSearch, keyword)
    /\ \E loopOk \in Outcome(loop.current = 0) : loop' = RunAsync(loop, loopOk)
    /\ UNCHANGED <<world, client, open, reported, lastCall, captured>>

step_verify_search_results_displayed ==
    /\ phase = "Step"
    /\ CurrentStep.kind = "verify_results"
    /\ \E displayed \in BOOLEAN,
          repOk \in Outcome(world.mcp_client /\ IsConnected(client)) :
         /\ Inject(Cost(displayed) + Cost(repOk))
         /\ LET ctx1 == GooglePage(context, world)
                results_displayed == displayed /\ ctx1["google_page"] # NoHandle
                status == IF results_displayed THEN "passed" ELSE "failed"
                details == [results_displayed |-> results_displayed,
                            keyword |-> IF "search_keyword" \in DOMAIN ctx1
                                        THEN ctx1["search_keyword"] ELSE Unknown]
                r == IF world.mcp_client
                     THEN ReportTestResult(client, VerifySearchResults, status, details,
                                           NoText, repOk)
                     ELSE Result(client, NoValue, FALSE)
                raised == r.raised \/ ~results_displayed
            IN  /\ context' = ctx1
                /\ client' = r.self
                /\ reported' = IF world.mcp_client
                               THEN Append(reported, TestResult(VerifySearchResults, status,
                                                                details, NoText))
                               ELSE reported
                /\ StepEnds(raised, ErrNoResults, NoText)
    /\ \E loopOk \in Outcome(loop.current = 0) : loop' = RunAsync(loop, loopOk)
    /\ UNCHANGED <<world, open, lastCall, captured>>

\* The text the title step looks for: the scenario's own, replaced by the
\* fetched criterion when the client is connected and supplies one.
ExpectedText(w, c, expected_text, fetchOk) ==
    IF w.mcp_client /\ IsConnected(c)
    THEN LET validation_data == FetchDynamicData(c, "validation_criteria", fetchOk).ret
         IN  IF Truthy(validation_data, "title_contains")
             THEN validation_data["title_contains"] ELSE expected_text
    ELSE expected_text

step_verify_page_title_contains ==
    /\ phase = "Step"
    /\ CurrentStep.kind = "verify_title"
    /\ \E title \in Titles \cup {NoText},
          fetchOk \in Outcome(world.mcp_client /\ IsConnected(client)),
          repOk \in Outcome(world.mcp_client /\ IsConnected(client)) :
         /\ Inject(Cost(title # NoText) + Cost(fetchOk) + Cost(repOk))
         /\ LET ctx1 == GooglePage(context, world)
                page_title == IF ctx1["google_page"] # NoHandle THEN title ELSE NoText
                expected_text == ExpectedText(world, client, CurrentStep.arg, fetchOk)
                title_contains_text == Contains(Lower(page_title), Lower(expected_text))
                status == IF title_contains_text THEN "passed" ELSE "failed"
                details == [page_title |-> page_title, expected_text |-> expected_text,
                            contains |-> title_contains_text]
                r == IF world.mcp_client
                     THEN ReportTestResult(client, VerifyPageTitle, status, details,
                                           NoText, repOk)
                     ELSE Result(client, NoValue, FALSE)
                raised == r.raised \/ ~title_contains_text
            IN  /\ context' = ctx1
                /\ client' = r.self
                /\ reported' = IF world.mcp_client
                               THEN Append(reported, TestResult(VerifyPageTitle, status,
                                                                details, NoText))
                               ELSE reported
                /\ StepEnds(raised, ErrTitle, expected_text)
    /\ \E loopOk \in Outcome(loop.current = 0) : loop' = RunAsync(loop, loopOk)
    /\ UNCHANGED <<world, open, lastCall, captured>>

\* The record after_step_hook stores for a capture (the file's path and the
\* timestamp are left out: no claim reads them).
ScreenshotInfo(step, scenario_name, status) ==
    [step |-> step.name, step_type |-> step.keyword, scenario |-> scenario_name,
     status |-> status]

\* Variant: the record is stored before the capture is awaited, so a capture
\* that raises leaves it behind.
StoreScreenshotBeforeCapture(ctx, info, page, capOk) ==
    LET ctx1 == IF "scenario_screenshots" \in DOMAIN ctx THEN ctx
                ELSE Put(ctx, "scenario_screenshots", <<>>)
        ctx2 == Put(ctx1, "scenario_screenshots", Append(ctx1["scenario_screenshots"], info))
        ctx3 == IF "screenshots" \in DOMAIN ctx2 THEN ctx2 ELSE Put(ctx2, "screenshots", <<>>)
        ctx4 == Put(ctx3, "screenshots", Append(ctx3["screenshots"], info))
    IN  IF page # NoHandle THEN ctx4 ELSE ctx

\* The try block of after_step_hook: the capture, then the record appended
\* to the scenario's list and to the run's list; a capture that raises ends
\* the block before the appends.
StoreScreenshot(ctx, info, page, capOk) ==
    LET ctx1 == IF "scenario_screenshots" \in DOMAIN ctx THEN ctx
                ELSE Put(ctx, "scenario_screenshots", <<>>)
        ctx2 == Put(ctx1, "scenario_screenshots", Append(ctx1["scenario_screenshots"], info))
        ctx3 == IF "screenshots" \in DOMAIN ctx2 THEN ctx2 ELSE Put(ctx2, "screenshots", <<>>)
        ctx4 == Put(ctx3, "screenshots", Append(ctx3["screenshots"], info))
    IN  IF page # NoHandle /\ capOk THEN ctx4 ELSE ctx

\* after_step_hook, and the runner's next move: a failed step ends the
\* scenario as failed, the last step passing ends it as passed.
after_step_hook ==
    /\ phase = "AfterStep"
    /\ \E capOk \in Outcome("world" \in DOMAIN context /\ world.page # NoHandle) :
         /\ Inject(Cost(capOk))
         /\ LET scenario_name == Take(Replace(scenario.name, " ", "_"), 30)
                info == ScreenshotInfo(CurrentStep, scenario_name, scenario.step_status)
                page == IF "world" \in DOMAIN context THEN world.page ELSE NoHandle
            IN  /\ context' = StoreScreenshot(context, info, page, capOk)
                /\ trace' = [NoTrace EXCEPT !.hook = "after_step",
                                            !.shot_attempted = page # NoHandle,
                                            !.shot_raised = page # NoHandle /\ ~capOk,
                                            !.before = Len(reported)]
                /\ captured' = IF page # NoHandle /\ capOk THEN Append(captured, info)
                               ELSE captured
                /\ \E loopOk \in Outcome(loop.current = 0) :
                      loop' = IF page # NoHandle THEN RunAsync(loop, loopOk)
                              ELSE GetEventLoop(loop, loopOk)
    /\ IF scenario.step_status = "failed"
       THEN /\ scenario' = [scenario EXCEPT !.status = "failed"]
            /\ phase' = "ScenarioEnd"
       ELSE IF scenario.idx < Len(scenario.steps)
            THEN /\ scenario' = [scenario EXCEPT !.idx = @ + 1, !.step_status = "untested"]
                 /\ phase' = "Step"
            ELSE /\ scenario' = [scenario EXCEPT !.status = "passed"]
                 /\ phase' = "ScenarioEnd"
    /\ UNCHANGED <<world, client, open, reported, lastCall>>

ScreenshotPrefix == <<"s", "c", "r", "e", "e", "n", "s", "h", "o", "t", "_">>

\* The body of after_scenario_hook up to and including cleanup().  calls =
\* the records it passed to report_test_result.
AfterScenario(h, scn, shotOk, repOk, stopOk, out) ==
    LET has_client == h.world.mcp_client
        failed_branch == scn.status = "failed" /\ h.world.page # NoHandle
        passed_branch == ~failed_branch /\ scn.status = "passed" /\ has_client
        screenshot_path == ScreenshotPrefix \o Replace(scn.name, " ", "_")
        failed_details == [error |-> scn.exception]
        passed_details == [duration |-> None]
        \* the failure branch: screenshot and report inside one try block
        rf == ReportTestResult(h.client, scn.name, "failed", failed_details,
                               screenshot_path, repOk)
        rp == ReportTestResult(h.client, scn.name, "passed", passed_details, NoText, repOk)
        reports_failed == failed_branch /\ shotOk /\ has_client
        c1 == IF reports_failed THEN rf.self
              ELSE IF passed_branch THEN rp.self ELSE h.client
        raised1 == passed_branch /\ rp.raised
        calls == IF reports_failed
                 THEN <<TestResult(scn.name, "failed", failed_details, screenshot_path)>>
                 ELSE IF passed_branch
                      THEN <<TestResult(scn.name, "passed", passed_details, NoText)>>
                      ELSE <<>>
        st == IF has_client THEN StopTestOrchestration(c1, scn.name, stopOk)
              ELSE Result(c1, NoValue, FALSE)
        raised2 == raised1 \/ st.raised
        h2 == [h EXCEPT !.client = IF raised1 THEN c1 ELSE st.self]
        cl == Cleanup(h2, out)
    IN  [self |-> IF raised2 THEN h2 ELSE cl.self,
         raised |-> raised2 \/ cl.raised,
         cleanup_calls |-> IF raised2 THEN 0 ELSE 1,
         cleanup_raised |-> ~raised2 /\ cl.raised,
         present |-> IF raised2 THEN {} ELSE Present(h2),
         attempted |-> IF raised2 THEN {} ELSE cl.attempted,
         shot_attempted |-> failed_branch,
         calls |-> calls]

\* after_scenario_hook; the runner then goes on to the next scenario.
after_scenario_hook ==
    /\ phase = "ScenarioEnd"
    /\ \E shotOk \in Outcome(scenario.status = "failed" /\ world.page # NoHandle),
          repOk \in Outcome(world.mcp_client /\ IsConnected(client)),
          stopOk \in Outcome(world.mcp_client /\ IsConnected(client)),
          out \in CloseChoices :
         /\ \A f \in DOMAIN out : world[f] = NoHandle => out[f] = "ok"
         /\ ~shotOk => repOk
         /\ Inject(Cost(shotOk) + Cost(repOk) + Cost(stopOk)
                      + Cardinality({f \in DOMAIN out : out[f] # "ok"}))
         /\ LET a == AfterScenario(Heap, scenario, shotOk, repOk, stopOk, out)
            IN  /\ world' = a.self.world
                /\ client' = a.self.client
                /\ open' = a.self.open
                /\ reported' = reported \o a.calls
                /\ context' = IF ~a.raised /\ "scenario_screenshots" \in DOMAIN context
                              THEN Put(context, "screenshots",
                                       context["screenshots"] \o context["scenario_screenshots"])
                              ELSE context
                /\ trace' = [NoTrace EXCEPT !.hook = "after_scenario", !.raised = a.raised,
                                            !.cleanup_calls = a.cleanup_calls,
                                            !.cleanup_raised = a.cleanup_raised,
                                            !.present = a.present,
                                            !.attempted = a.attempted,
                                            !.shot_attempted = a.shot_attempted,
                                            !.shot_raised = a.shot_attempted /\ ~shotOk,
                                            !.before = Len(reported)]
    /\ phase' = "SuiteActive"
    /\ \E loopOk \in Outcome(loop.current = 0) : loop' = RunAsync(loop, loopOk)
    /\ UNCHANGED <<scenario, lastCall, captured>>

(***************************************************************************)
(* ReportGenerator (utils/report_generator.py)                             *)
(***************************************************************************)
\* sum(1 for r in test_results if r.get("status") == status)
CountStatus(test_results, status) ==
    Cardinality({i \in DOMAIN test_results : test_results[i].status = status})

\* round(num / den, 0) as Python rounds: to nearest, a tie to the even one
RoundHalfEven(num, den) ==
    LET q == num \div den
        r == num % den
    IN  IF 2 * r < den THEN q
        ELSE IF 2 * r > den THEN q + 1
        ELSE IF q % 2 = 0 THEN q ELSE q + 1

\* round(passed / total * 100, 2) if total > 0 else 0, held in hundredths of
\* a percent: 25.0 is 2500, 66.67 is 6667.
PassRate(passed, total) ==
    IF total > 0 THEN RoundHalfEven(passed * 10000, total) ELSE 0

\* Variant: failed records are not counted.
CalculateSummaryDropsFailed(test_results) ==
    Result(NoValue,
           [total |-> Len(test_results),
            passed |-> CountStatus(test_results, "passed"),
            failed |-> 0,
            skipped |-> CountStatus(test_results, "skipped"),
            pass_rate |-> PassRate(CountStatus(test_results, "passed"), Len(test_results))],
           FALSE)

\* Variant: the rate is divided without the test total > 0.
CalculateSummaryUnguarded(test_results) ==
    IF Len(test_results) = 0
    THEN Result(NoValue, NoValue, TRUE)
    ELSE Result(NoValue,
                [total |-> Len(test_results),
                 passed |-> CountStatus(test_results, "passed"),
                 failed |-> CountStatus(test_results, "failed"),
                 skipped |-> CountStatus(test_results, "skipped"),
                 pass_rate |-> PassRate(CountStatus(test_results, "passed"),
                                        Len(test_results))],
                FALSE)

\* Variant: the rate is cut to 2 decimals instead of rounded.
CalculateSummaryTruncates(test_results) ==
    Result(NoValue,
           [total |-> Len(test_results),
            passed |-> CountStatus(test_results, "passed"),
            failed |-> CountStatus(test_results, "failed"),
            skipped |-> CountStatus(test_results, "skipped"),
            pass_rate |-> IF Len(test_results) > 0
                          THEN (CountStatus(test_results, "passed") * 10000)
                                   \div Len(test_results)
                          ELSE 0],
           FALSE)

\* _calculate_summary
CalculateSummary(test_results) ==
    LET total == Len(test_results)
        passed == CountStatus(test_results, "passed")
        failed == CountStatus(test_results, "failed")
        skipped == CountStatus(test_results, "skipped")
    IN  Result(NoValue,
               [total |-> total, passed |-> passed, failed |-> failed,
                skipped |-> skipped, pass_rate |-> PassRate(passed, total)],
               FALSE)

\* generate_html_report: _create_html_content reads the name screenshots,
\* which is neither its parameter nor a global, so building the content raises.
GenerateHtmlReport(test_results, feature_name, screenshots) ==
    Result(None, NoValue, TRUE)

UnknownTest == <<"U", "n", "k", "n", "o", "w", "n", " ", "T", "e", "s", "t">>

\* result.get("name", "Unknown Test")
ResultName(result) ==
    IF "name" \in DOMAIN result THEN result["name"] ELSE UnknownTest

\* The screenshots _generate_test_results_html relates to a name: those whose
\* step contains the name or whose scenario is contained in it, compared in
\* lower case.
StepScreenshots(name, screenshots) ==
    LET Related(s) == \/ Contains(Lower(s.step), Lower(name))
                      \/ Contains(Lower(name), Lower(s.scenario))
    IN  SelectSeq(screenshots, Related)

\* _generate_test_results_html: for each result, in order, the name and the
\* status it is rendered with and the screenshots rendered under it.
GenerateTestResultsHtml(test_results, screenshots) ==
    Result(NoValue,
           [i \in DOMAIN test_results |->
               [name |-> ResultName(test_results[i]),
                status |-> test_results[i].status,
                screenshots |-> StepScreenshots(ResultName(test_results[i]), screenshots)]],
           FALSE)

\* generate_json_report: the summary, then the file; writeOk = the file could
\* be opened and written.
GenerateJsonReport(test_results, writeOk) ==
    LET s == CalculateSummary(test_results)
    IN  IF s.raised \/ ~writeOk
        THEN Result(NoValue, NoValue, TRUE)
        ELSE Result(NoValue,
                    [path |-> "test_report.json",
                     report_data |-> [test_results |-> test_results, summary |-> s.ret]],
                    FALSE)

\* after_all_hook: read the results through the world's client and, when
\* there are any, generate the reports.
after_all_hook ==
    /\ phase = "SuiteActive"
    /\ LET test_results == IF "world" \in DOMAIN context /\ world.mcp_client
                           THEN GetTestResults(client) ELSE <<>>
           g == IF test_results # <<>>
                THEN GenerateHtmlReport(test_results, "Google Search Automation",
                                        context["screenshots"])
                ELSE Result(None, NoValue, FALSE)
           json_called == test_results # <<>> /\ ~g.raised
       IN  \E writeOk \in Outcome(json_called) :
             /\ Inject(Cost(writeOk))
             /\ LET j == IF json_called THEN GenerateJsonReport(test_results, writeOk)
                         ELSE Result(None, NoValue, FALSE)
                IN  trace' = [NoTrace EXCEPT
                                 !.hook = "after_all",
                                 !.raised = g.raised \/ j.raised,
                                 !.read = test_results,
                                 !.written =
                                     (IF test_results # <<>> /\ ~g.raised THEN {"html"} ELSE {})
                                         \cup (IF json_called /\ ~j.raised THEN {"json"} ELSE {}),
                                 !.before = Len(reported)]
    /\ phase' = "Done"
    /\ UNCHANGED <<context, world, client, open, scenario, reported, lastCall, captured, loop>>

Next ==
    \/ before_all_hook
    \/ before_scenario_hook
    \/ step_navigate_to_google
    \/ step_search_for_keyword
    \/ step_verify_search_results_displayed
    \/ step_verify_page_title_contains
    \/ after_step_hook
    \/ after_scenario_hook
    \/ after_all_hook

Spec == Init /\ [][Next]_vars

(***************************************************************************)
(* The run with suite-start invoked again while the suite is active.       *)
(***************************************************************************)
before_all_hook_again ==
    /\ phase = "SuiteActive"
    /\ \E env \in {"dev"} :
         context' = BeforeAll(context, env)
    /\ trace' = [NoTrace EXCEPT !.hook = "before_all", !.before = Len(reported)]
    /\ UNCHANGED <<phase, world, client, open, scenario, reported, lastCall, faults, captured,
                   loop>>

RestartNext ==
    \/ Next
    \/ before_all_hook_again

RestartSpec == Init /\ [][RestartNext]_vars

(***************************************************************************)
(* One MCPClient driven directly, by any sequence of its operations.       *)
(***************************************************************************)
ReportNames == {BasicSearch, VerifySearchResults}

ReportStatuses == {"passed", "failed"}

ReportDetails == {NoDetails, [error |-> ErrSearch]}

ReportPaths == {NoText, ScreenshotPrefix}

DataTypes == {"search_keyword", "validation_criteria", "other"}

Called(op, args, ok, r) ==
    /\ client' = r.self
    /\ lastCall' = [op |-> op, args |-> args, ok |-> ok, ret |-> r.ret, raised |-> r.raised]
    /\ UNCHANGED <<phase, context, world, open, scenario, reported, trace, faults, captured, loop>>

client_connect ==
    \E ok \in BOOLEAN : Called("connect", <<>>, ok, Connect(client, ok))

client_disconnect ==
    Called("disconnect", <<>>, TRUE, Disconnect(client))

client_start_test_orchestration ==
    \E name \in ReportNames, ok \in BOOLEAN :
        Called("start", <<name>>, ok, StartTestOrchestration(client, name, ok))

client_stop_test_orchestration ==
    \E name \in ReportNames, ok \in BOOLEAN :
        Called("stop", <<name>>, ok, StopTestOrchestration(client, name, ok))

client_fetch_dynamic_data ==
    \E data_type \in DataTypes, ok \in BOOLEAN :
        Called("fetch", <<data_type>>, ok, FetchDynamicData(client, data_type, ok))

client_report_test_result ==
    /\ Len(client.test_results) < MaxResults
    /\ \E name \in ReportNames, status \in ReportStatuses, details \in ReportDetails,
          path \in ReportPaths, ok \in BOOLEAN :
        Called("report", <<name, status, details, path>>, ok,
               ReportTestResult(client, name, status, details, path, ok))

ClientNext ==
    \/ client_connect
    \/ client_disconnect
    \/ client_start_test_orchestration
    \/ client_stop_test_orchestration
    \/ client_fetch_dynamic_data
    \/ client_report_test_result

ClientSpec == Init /\ [][ClientNext]_vars

(***************************************************************************)
(* One ReportGenerator driven directly, on any result sequence.            *)
(***************************************************************************)
SummaryStatuses == {"passed", "failed", "skipped", "unknown"}

ResultSequences ==
    UNION { [1..n -> {TestResult(BasicSearch, s, NoDetails, NoText) : s \in SummaryStatuses}] :
                n \in 0..MaxSummaryLen }

\* Evidence records as after_step_hook stores them: of the scenario "basic
\* search" and of a scenario named "search".
EvidenceSequences ==
    LET of_basic_search == ScreenshotInfo(StepNavigate, Take(Replace(BasicSearch, " ", "_"), 30),
                                          "passed")
        of_search == ScreenshotInfo(StepSearch, <<"s", "e", "a", "r", "c", "h">>, "passed")
    IN  { <<>>, <<of_basic_search>>, <<of_basic_search, of_search>> }

\* The generator is handed a result sequence and an evidence sequence, then
\* called on them.
ReportInit ==
    /\ phase = "Idle"
    /\ context = EmptyDict
    /\ world = NewWorld
    /\ client = NewMCPClient
    /\ open = {}
    /\ scenario = NoScenario
    /\ reported = <<>>
    /\ trace = NoTrace
    /\ lastCall \in {[NoCall EXCEPT !.args = <<rs, ev>>] :
                         rs \in ResultSequences, ev \in EvidenceSequences}
    /\ faults = 0
    /\ captured = <<>>
    /\ loop = NoLoop

ReportCalled(op, r) ==
    /\ lastCall' = [op |-> op, args |-> lastCall.args, ok |-> TRUE, ret |-> r.ret,
                    raised |-> r.raised]
    /\ UNCHANGED <<phase, context, world, client, open, scenario, reported, trace, faults,
                   captured, loop>>

report_calculate_summary ==
    ReportCalled("summary", CalculateSummary(lastCall.args[1]))

report_generate_html_report ==
    ReportCalled("html", GenerateHtmlReport(lastCall.args[1], "Test Report", <<>>))

report_generate_json_report ==
    \E writeOk \in BOOLEAN :
        ReportCalled("json", GenerateJsonReport(lastCall.args[1], writeOk))

report_generate_test_results_html ==
    ReportCalled("results_html", GenerateTestResultsHtml(lastCall.args[1], lastCall.args[2]))

ReportNext ==
    \/ report_calculate_summary
    \/ report_generate_html_report
    \/ report_generate_json_report
    \/ report_generate_test_results_html

ReportSpec == ReportInit /\ [][ReportNext]_vars

(***************************************************************************)
(* Properties                                                              *)
(***************************************************************************)
AfterScenarioEnd == trace.hook = "after_scenario"

BrowserSteps == {"page", "browser_context", "browser", "playwright"}

\* C1: in cleanup, every teardown step whose handle is present is attempted,
\* whichever other steps raise.
C1_TeardownStepsIndependent ==
    AfterScenarioEnd => trace.present \subseteq trace.attempted

\* C2: whatever the scenario's outcome, after_scenario_hook has invoked
\* cleanup exactly once when it returns or raises.
C2_CleanupExactlyOnce ==
    AfterScenarioEnd => trace.cleanup_calls = 1

\* C2 witness: a failed scenario whose failure screenshot raised, with
\* cleanup run on the four handles of its session.
C2_Witness ==
    /\ AfterScenarioEnd
    /\ scenario.status = "failed"
    /\ trace.shot_raised
    /\ trace.cleanup_calls = 1
    /\ BrowserSteps \subseteq trace.present

\* C3: every open handle belongs to the scenario that is running; between
\* scenarios and after the run no handle is open.
C3_NoHandleOutlivesItsScenario ==
    /\ \A hd \in open : hd[2] = scenario.n
    /\ phase \in {"Idle", "SuiteActive", "Done"} => open = {}

\* C4: the scenario-end of a failed scenario attempts the failure screenshot
\* and appends one result with the scenario's name, status failed and the
\* error message under details.error.
C4_FailedScenarioIsReported ==
    AfterScenarioEnd /\ scenario.status = "failed" =>
        /\ trace.shot_attempted
        /\ Len(reported) = trace.before + 1
        /\ reported[Len(reported)].test_name = scenario.name
        /\ reported[Len(reported)].status = "failed"
        /\ "error" \in DOMAIN reported[Len(reported)].details
        /\ reported[Len(reported)].details["error"] = scenario.exception

\* C5: the sequence suite-end reads through get_test_results holds every
\* result reported in the run, in order, and after a scenario-start the
\* results reported before it are still in the client's sequence.
C5_SuiteEndReadsEveryResult ==
    /\ trace.hook = "after_all" => trace.read = reported
    /\ trace.hook = "before_scenario" /\ ~trace.raised =>
           /\ Len(GetTestResults(client)) >= trace.before
           /\ SubSeq(GetTestResults(client), 1, trace.before) = reported

\* C6: a call of report_test_result, connected or degraded, appends exactly
\* one record with the given name, status and details, and does not raise.
C6_ReportAppendsOneRecord ==
    [][lastCall'.op = "report" =>
          LET old == client.test_results
              new == client'.test_results
              args == lastCall'.args
          IN  /\ ~lastCall'.raised
              /\ Len(new) = Len(old) + 1
              /\ SubSeq(new, 1, Len(old)) = old
              /\ new[Len(new)].test_name = args[1]
              /\ new[Len(new)].status = args[2]
              /\ new[Len(new)].details = (IF args[3] = NoDetails THEN EmptyDict ELSE args[3])
      ]_vars

\* C6 witness: a report made while connected whose remote delivery failed,
\* after an earlier report.
C6_Witness ==
    /\ lastCall.op = "report"
    /\ ~lastCall.ok
    /\ client.connected
    /\ Len(client.test_results) = 2

\* C7: over any sequence of client operations the result sequence only grows
\* at its end, also when the reported name is already in it.
C7_ResultsOnlyGrowAtEnd ==
    [][LET old == client.test_results
           new == client'.test_results
       IN  /\ Len(new) >= Len(old)
           /\ SubSeq(new, 1, Len(old)) = old
           /\ lastCall'.op = "report" => Len(new) = Len(old) + 1
      ]_vars

\* C7 witness: two records with the same name are both in the sequence.
C7_Witness ==
    /\ Len(client.test_results) = 2
    /\ client.test_results[1].test_name = client.test_results[2].test_name
    /\ client.test_results[1] # client.test_results[2]

\* C8: after a scenario in which a step raised, after_scenario_hook has not
\* raised and the runner is ready for the next scenario-start.
C8_StepErrorStopsAtScenarioEnd ==
    AfterScenarioEnd /\ scenario.step_status = "failed" =>
        /\ ~trace.raised
        /\ phase = "SuiteActive"
        /\ scenario.n < MaxScenarios => ENABLED before_scenario_hook

\* C8 witness: a scenario failed by a step, ended by a cleanup in which a
\* close raised.
C8_Witness ==
    /\ AfterScenarioEnd
    /\ scenario.step_status = "failed"
    /\ scenario.status = "failed"
    /\ trace.present # trace.attempted
    /\ ~trace.raised

\* C9 as stated: when client initialisation, connect or start fails at
\* scenario-start, the hook completes, the steps run, and the client is
\* absent or degraded.
C9_ClientAbsentOrDegraded ==
    trace.hook = "before_scenario" /\ trace.mcp_fault # "none" =>
        /\ ~trace.raised
        /\ phase = "Step"
        /\ ~world.mcp_client \/ ~IsConnected(client)

\* C9 amended: the hook completes and the steps run; the client is absent
\* when its initialisation failed, degraded when connect failed, and still
\* connected when only start_test_orchestration failed.
C9_OrchestrationIsBestEffort ==
    trace.hook = "before_scenario" /\ trace.mcp_fault # "none" =>
        /\ ~trace.raised
        /\ phase = "Step"
        /\ scenario.idx = 1
        /\ trace.mcp_fault = "init" => ~world.mcp_client
        /\ trace.mcp_fault = "connect" => world.mcp_client /\ ~IsConnected(client)
        /\ trace.mcp_fault = "start" => world.mcp_client /\ IsConnected(client)

\* C9 witness: the client's initialisation failed and the first step is next.
C9_Witness ==
    /\ trace.hook = "before_scenario"
    /\ trace.mcp_fault = "init"
    /\ ~world.mcp_client
    /\ phase = "Step"

\* C10: in degraded mode fetch_dynamic_data("search_keyword") returns the
\* keyword AI, the same on every call, and leaves the client as it was.
C10_DegradedFetchReturnsDefault ==
    [][lastCall'.op = "fetch" /\ lastCall'.args = <<"search_keyword">> /\ ~client.connected =>
          /\ "keyword" \in DOMAIN lastCall'.ret
          /\ lastCall'.ret["keyword"] = <<"A", "I">>
          /\ lastCall'.ret["keyword"] # NoText
          /\ ~lastCall'.raised
          /\ client' = client
      ]_vars

\* C10 witness: a degraded fetch of the keyword on a client that already
\* holds a result.
C10_Witness ==
    /\ lastCall.op = "fetch"
    /\ lastCall.args = <<"search_keyword">>
    /\ ~client.connected
    /\ Len(client.test_results) >= 1
    /\ lastCall.ret = [keyword |-> <<"A", "I">>, source |-> "default"]

\* a Python boolean as a returned value
Bool(b) == [bool |-> b]

\* C11: connect() does not raise and returns the boolean is_connected()
\* gives right after the call; after a failed connect the client is degraded.
C11_ConnectReturnsSuccess ==
    lastCall.op = "connect" =>
        /\ ~lastCall.raised
        /\ lastCall.ret = Bool(IsConnected(client))
        /\ ~lastCall.ok => ~IsConnected(client)

\* C12: cleanup does not raise to its caller, whichever closes fail and
\* whichever handles are absent.
C12_CleanupNeverRaises ==
    AfterScenarioEnd /\ trace.cleanup_calls = 1 => ~trace.cleanup_raised

\* C12 witness: a cleanup entered without a page handle, in which a close
\* raised and the closes after it were skipped.
C12_Witness ==
    /\ AfterScenarioEnd
    /\ trace.cleanup_calls = 1
    /\ "page" \notin trace.present
    /\ "browser" \in trace.present
    /\ trace.present # trace.attempted
    /\ ~trace.cleanup_raised

\* C13: for the result sequence a run has accumulated in its client, the
\* summary's total is the length of the sequence and passed + failed +
\* skipped is the total.
C13_SummaryCountsAddUp ==
    LET rs == GetTestResults(client)
        s == CalculateSummary(rs)
    IN  /\ ~s.raised
        /\ s.ret.total = Len(rs)
        /\ s.ret.passed + s.ret.failed + s.ret.skipped = s.ret.total

\* C13 witness: a step-level and a scenario-level report of a failed
\* scenario are in the sequence.
C13_Witness ==
    /\ AfterScenarioEnd
    /\ Len(GetTestResults(client)) = 2
    /\ GetTestResults(client)[1].test_name # GetTestResults(client)[2].test_name
    /\ CalculateSummary(GetTestResults(client)).ret.failed = 2

\* C14: for every result sequence the pass rate lies between 0 and 100, and
\* for the empty sequence it is 0 and nothing is raised.
C14_PassRateInRange ==
    lastCall.op = "summary" =>
        /\ ~lastCall.raised
        /\ lastCall.ret.pass_rate >= 0
        /\ lastCall.ret.pass_rate <= 100 * 100
        /\ lastCall.args[1] = <<>> => lastCall.ret.pass_rate = 0 /\ lastCall.ret.total = 0

\* C14 witness: the summary of the empty sequence.
C14_Witness ==
    /\ lastCall.op = "summary"
    /\ lastCall.args[1] = <<>>
    /\ lastCall.ret.pass_rate = 0

\* the statuses of a result sequence, in order
StatusesOf(rs) == [i \in DOMAIN rs |-> rs[i].status]

\* C15: over the statuses passed, failed and skipped the summary counts the
\* records of each status, and the pass rate is passed/total*100 rounded to
\* 2 decimals: it is the nearest hundredth.
C15_SummaryCountsByStatus ==
    lastCall.op = "summary"
        /\ (\A i \in DOMAIN lastCall.args[1] :
                lastCall.args[1][i].status \in {"passed", "failed", "skipped"}) =>
        LET rs == lastCall.args[1]
            s == lastCall.ret
        IN  /\ s.total = Len(rs)
            /\ s.passed = Cardinality({i \in DOMAIN rs : rs[i].status = "passed"})
            /\ s.failed = Cardinality({i \in DOMAIN rs : rs[i].status = "failed"})
            /\ s.skipped = Cardinality({i \in DOMAIN rs : rs[i].status = "skipped"})
            /\ s.total > 0 =>
                 /\ 2 * (s.pass_rate * s.total - s.passed * 10000) <= s.total
                 /\ 2 * (s.passed * 10000 - s.pass_rate * s.total) <= s.total
            /\ StatusesOf(rs) = <<"passed", "failed", "failed", "skipped">> =>
                 /\ s.total = 4 /\ s.passed = 1 /\ s.failed = 2 /\ s.skipped = 1
                 /\ s.pass_rate = 2500

\* C15 witness: the summary of [passed, failed, failed, skipped].
C15_Witness ==
    /\ lastCall.op = "summary"
    /\ StatusesOf(lastCall.args[1]) = <<"passed", "failed", "failed", "skipped">>
    /\ lastCall.ret.pass_rate = 2500

\* C16: a run of one scenario whose steps navigate, search and verify
\* results all succeed ends with exactly one record, named after the scenario
\* with status passed, and the summary total 1, passed 1, failed 0, skipped 0,
\* pass rate 100.0.
C16_PassedScenarioYieldsOneResult ==
    AfterScenarioEnd /\ scenario.n = 1 /\ scenario.name = BasicSearch
        /\ scenario.status = "passed" /\ faults = 0 =>
        LET rs == GetTestResults(client)
            s == CalculateSummary(rs).ret
        IN  /\ Len(rs) = 1
            /\ rs[1].test_name = scenario.name
            /\ rs[1].status = "passed"
            /\ s.total = 1 /\ s.passed = 1 /\ s.failed = 0 /\ s.skipped = 0
            /\ s.pass_rate = 100 * 100

\* C17: after a scenario in which a step raised, the run's evidence holds a
\* screenshot record whose scenario field is the scenario's name as given.
C17_EvidenceNamesTheScenario ==
    AfterScenarioEnd /\ scenario.step_status = "failed" =>
        \E i \in DOMAIN context["screenshots"] :
            context["screenshots"][i].scenario = scenario.name

\* C18: a step-end whose capture raised, or that ran without a page handle,
\* leaves both evidence sequences as they were and does not raise; a step-end
\* adds a record only after a capture that succeeded.
C18_NoRecordWithoutCapture ==
    [][trace'.hook = "after_step" =>
          /\ ~trace'.raised
          /\ ~trace'.shot_attempted \/ trace'.shot_raised => context' = context
          /\ context' # context =>
                /\ trace'.shot_attempted /\ ~trace'.shot_raised
                /\ Len(context'["screenshots"]) = Len(context["screenshots"]) + 1
                /\ Len(context'["scenario_screenshots"])
                       = Len(context["scenario_screenshots"]) + 1
      ]_vars

\* C18 witness: the capture of a step-end raised after an earlier step-end
\* of the scenario had stored its record.
C18_Witness ==
    /\ trace.hook = "after_step"
    /\ trace.shot_raised
    /\ Len(context["scenario_screenshots"]) = 1

\* C19: generate_html_report, on any result sequence, completes without
\* error and returns the path of the artifact it wrote.
C19_HtmlReportIsWritten ==
    lastCall.op = "html" =>
        /\ ~lastCall.raised
        /\ "path" \in DOMAIN lastCall.ret

\* C20: in a run in which a scenario reported a result, suite-end has written
\* the HTML and the JSON artifact when it finishes.
C20_SuiteEndWritesBothReports ==
    trace.hook = "after_all" /\ reported # <<>> =>
        /\ ~trace.raised
        /\ trace.written = {"html", "json"}

\* C21: suite-start invoked again while the suite is active leaves the loaded
\* configuration and the run-level evidence as they were.
C21_SuiteStartIsIdempotent ==
    [][phase = "SuiteActive" /\ trace'.hook = "before_all" =>
          /\ context'["config_manager"] = context["config_manager"]
          /\ context'["screenshots"] = context["screenshots"]
      ]_vars

\* C22: when a step of browser start-up fails, init_browser raises to
\* before_scenario_hook after the one attempt, and the hook goes on neither
\* to the client's initialisation nor to the steps.
C22_BrowserFailureStopsScenarioStart ==
    trace.hook = "before_scenario" /\ trace.browser_fault # 0 =>
        /\ trace.raised
        /\ ~trace.mcp_called
        /\ phase = "ScenarioEnd"
        /\ scenario.status = "failed"
        /\ scenario.idx = 0
        /\ {hd \in open : hd[2] = scenario.n}
               = {<<StartupSteps[i], scenario.n>> : i \in 1..(trace.browser_fault - 1)}

\* C22 witness: the start-up failed at new_context, after the driver and the
\* browser had been started.
C22_Witness ==
    /\ trace.hook = "before_scenario"
    /\ trace.browser_fault = 3
    /\ trace.raised
    /\ <<"browser", scenario.n>> \in open

\* C23: the run-level evidence read at suite-end holds each record a
\* step-end capture stored exactly once, in capture order.
C23_EvidenceHoldsEachCaptureOnce ==
    trace.hook = "after_all" => context["screenshots"] = captured

\* C24: within a scenario a step-end capture follows the step it belongs to
\* and is over before the next step begins: steps and step-ends alternate,
\* and a stored record carries the step that has just ended and its status.
C24_CaptureFollowsItsStep ==
    [][/\ trace'.hook = "after_step" =>
             /\ trace.hook = "step"
             /\ captured' # captured =>
                   /\ captured'[Len(captured')].step = scenario.steps[scenario.idx].name
                   /\ captured'[Len(captured')].status = scenario.step_status
       /\ trace'.hook = "step" =>
             /\ phase = "Step"
             /\ trace.hook = (IF scenario.idx = 1 THEN "before_scenario" ELSE "after_step")
             /\ scenario'.idx = scenario.idx
      ]_vars

\* C24 witness: the capture of the second step has been stored after the one
\* of the first step.
C24_Witness ==
    /\ trace.hook = "after_step"
    /\ Len(captured) = 2
    /\ captured[1].step = StepNavigate.name
    /\ captured[2].step = StepSearch.name

\* C25: over the bridged calls of a run a loop is made only when the thread
\* has no current loop, every later call reuses it, and at most one awaited
\* operation is in flight at any time.
C25_OneLoopOneOperation ==
    /\ [](/\ loop.created <= 1
          /\ loop.new_event_loop_calls <= loop.created
          /\ loop.max_in_flight <= 1
          /\ loop.in_flight = 0)
    /\ [][loop.current # 0 =>
             /\ loop'.current = loop.current
             /\ loop'.created = loop.created
             /\ loop'.new_event_loop_calls = loop.new_event_loop_calls
         ]_vars

\* C25 witness: the loop the first bridged call made is the one in use at the
\* end of the second scenario.
C25_Witness ==
    /\ trace.hook = "after_scenario"
    /\ scenario.n = 2
    /\ loop.new_event_loop_calls = 1
    /\ loop.current = 1
    /\ loop.max_in_flight = 1

\* C26: each result is rendered under the name it was reported with, and
\* the screenshots under it are the evidence records whose step contains
\* that name or whose scenario is contained in it, case-insensitively.
C26_ResultsRenderedUnderTheirName ==
    lastCall.op = "results_html" =>
        LET rs == lastCall.args[1]
            ev == lastCall.args[2]
            out == lastCall.ret
            RelatedTo(name, s) == \/ Contains(Lower(s.step), Lower(name))
                                  \/ Contains(Lower(name), Lower(s.scenario))
        IN  /\ Len(out) = Len(rs)
            /\ \A i \in DOMAIN rs :
                  /\ out[i].name = rs[i].test_name
                  /\ Len(out[i].screenshots)
                         = Cardinality({k \in DOMAIN ev : RelatedTo(rs[i].test_name, ev[k])})
                  /\ \A k \in DOMAIN out[i].screenshots :
                         RelatedTo(rs[i].test_name, out[i].screenshots[k])

\* C27: after disconnect() on a client that had connected, is_connected()
\* is false and the orchestration calls and the fetch take their degraded
\* branch.
C27_DisconnectDegradesTheClient ==
    [][lastCall'.op = "disconnect" /\ IsConnected(client) =>
          /\ ~IsConnected(client')
          /\ StartTestOrchestration(client', BasicSearch, TRUE).ret.status = "skipped"
          /\ StopTestOrchestration(client', BasicSearch, TRUE).ret.status = "skipped"
          /\ FetchDynamicData(client', "search_keyword", TRUE).ret.source = "default"
      ]_vars

\* C28: the search step and the title step use the scenario's own parameter
\* when the client is absent or degraded, and another value only when the
\* client is connected and fetch_dynamic_data supplied that value, non-empty;
\* context.search_keyword changes only in a search step that searched, to the
\* keyword it searched for.
C28_ParameterReplacedOnlyWhenConnected ==
    /\ [](phase = "AfterStep" /\ trace.hook = "step"
          /\ CurrentStep.kind \in {"search", "verify_title"} =>
            LET connected == world.mcp_client /\ IsConnected(client)
                data_type == IF CurrentStep.kind = "search"
                             THEN "search_keyword" ELSE "validation_criteria"
                key == IF CurrentStep.kind = "search" THEN "keyword" ELSE "title_contains"
            IN  /\ ~connected => trace.used = CurrentStep.arg
                /\ trace.used # CurrentStep.arg =>
                      /\ connected
                      /\ trace.used # NoText
                      /\ \E ok \in BOOLEAN :
                            LET data == FetchDynamicData(client, data_type, ok).ret
                            IN  Truthy(data, key) /\ trace.used = data[key]
                /\ CurrentStep.kind = "search" /\ ~trace.raised =>
                      /\ "search_keyword" \in DOMAIN context
                      /\ context["search_keyword"] = trace.used)
    /\ [][\/ "search_keyword" \in DOMAIN context' /\ "search_keyword" \notin DOMAIN context
          \/ /\ "search_keyword" \in DOMAIN context' /\ "search_keyword" \in DOMAIN context
             /\ context'["search_keyword"] # context["search_keyword"]
          => /\ phase = "Step" /\ CurrentStep.kind = "search"
             /\ ~trace'.raised
             /\ context'["search_keyword"] = trace'.used
         ]_vars

\* C28 witness: a search step that passed on a degraded client searched for
\* the scenario's own keyword and recorded it.
C28_Witness ==
    /\ phase = "AfterStep" /\ trace.hook = "step"
    /\ CurrentStep.kind = "search"
    /\ ~trace.raised
    /\ world.mcp_client /\ ~IsConnected(client)
    /\ trace.used = CurrentStep.arg
    /\ trace.used # NoText
    /\ context["search_keyword"] = CurrentStep.arg

====
